---- MODULE Spec2Model ----
\* Continuous-detection and alert-escalation controller of the driver
\* drowsiness monitoring app: the CameraService singleton (repeating capture
\* timer, capture/detect chains, status broadcast) and the Tab1 monitoring
\* page (streak tracker, alert player, auto-stop watchdog).
\*
\* Times are in milliseconds.  A timer is a record with a handle `id`; the
\* sets alertTimers / timeouts / captureTimers hold the timers the host has
\* scheduled and not yet cancelled, while the refs hold the one handle the
\* code remembers (0 is null / undefined).
EXTENDS Integers, Sequences, FiniteSets, Bags, TLC

\* ---------------------------------------------------------------- bounds
MaxRun == 6            \* longest run of equal results the observation counts
MaxInFlight == 2       \* capture/detect chains in flight at once
MaxTimers == 2         \* handles the host hands out per timer kind
MaxPendingStarts == 2  \* start calls suspended in the permission request
MaxListeners == 3      \* registrations in connectionListeners at once
MaxElapsedMs == 12000  \* longest time a takePhoto call is followed

\* ------------------------------------------------------ program constants
DrowsyThreshold == 3
DistractedThreshold == 3
SafetyViolationThreshold == 3
UnknownThreshold == 5
WatchdogMs == 10000
AlertRepeatMs == 2000
DefaultIntervalMs == 2000
MinIntervalMs == 1000
MaxIntervalMs == 10000
IntervalStepMs == 500

DrowsinessStatus == {"safe", "drowsy", "distracted", "safety-violation", "unknown"}
NoStatus == "null"
NoTimer == 0

\* positions of the capture-interval slider
IntervalRange ==
  {MinIntervalMs + i * IntervalStepMs :
     i \in 0..((MaxIntervalMs - MinIntervalMs) \div IntervalStepMs)}

VARIABLES
  cameraStatus,            \* CameraService.cameraStatus
  captureInterval,         \* CameraService.captureInterval (timer handle)
  captureTimers,           \* repeating capture timers scheduled in the host
  pendingStarts,           \* start calls awaiting requestCameraPermissions
  inflight,                \* capture/detect chains in flight: the stage of
                           \* each, in the order the ticks started them
  uiCameraStatus,          \* Tab1 cameraStatus (mirror fed by statusChanged)
  captureIntervalMs,       \* Tab1 captureInterval (slider value)
  streamRef,               \* Tab1 streamRef.current holds an open preview stream
  consecutiveAlerts,       \* Tab1 consecutiveAlerts
  drowsyAlertIntervalRef,  \* Tab1 drowsyAlertIntervalRef.current
  alertTimers,             \* repeating alert timers scheduled in the host
  unknownTimeoutRef,       \* Tab1 unknownTimeoutRef.current
  timeouts,                \* one-shot watchdog timers scheduled in the host
  showAlert,               \* Tab1 showAlert
  alertMessage,            \* Tab1 alertMessage (kind of message)
  mounted,                 \* the Tab1 page is mounted (its listeners registered)
  isConnected,             \* ApiService.isConnected
  connectionListeners,     \* ApiService.connectionListeners
  subscriptions,           \* observation: the registrations made and disposed,
                           \* and who the latest status change notified
  takePhotoCall,           \* a call of CameraService.takePhoto: its platform,
                           \* its stage, its timeout and the time it has taken
  run,                     \* observation: the current run of equal results
  last,                    \* observation: the latest delivered result
  lastOp,                  \* observation: the latest handler and its pre-state
  unknownRun               \* observation: an unknown alert was raised and since
                           \* then every result was unknown and nobody stopped
                           \* capture or dismissed the popup

svars == <<cameraStatus, captureInterval, captureTimers, pendingStarts, inflight>>
uvars == <<uiCameraStatus, captureIntervalMs, streamRef, consecutiveAlerts,
           drowsyAlertIntervalRef, alertTimers, unknownTimeoutRef, timeouts,
           showAlert, alertMessage>>
pvars == <<svars, uvars>>
xvars == <<isConnected, connectionListeners, subscriptions, takePhotoCall>>
vars == <<pvars, mounted, run, last, lastOp, unknownRun, xvars>>

\* ------------------------------------------------------------- host timers
Ids(S) == {x.id : x \in S}
HasFreeId(S) == \E i \in 1..MaxTimers : i \notin Ids(S)
FreeId(S) == CHOOSE i \in 1..MaxTimers :
               i \notin Ids(S) /\ \A j \in 1..MaxTimers : j \notin Ids(S) => i <= j
ClearTimer(S, h) == {x \in S : x.id # h}

\* ------------------------------------------------------------ Tab1: alerts
\* The mutable cells the alert helpers touch, as one record.
Tab1State ==
  [drowsyAlertIntervalRef |-> drowsyAlertIntervalRef,
   alertTimers |-> alertTimers,
   unknownTimeoutRef |-> unknownTimeoutRef,
   timeouts |-> timeouts,
   showAlert |-> showAlert,
   alertMessage |-> alertMessage,
   played |-> <<>>]

\* variant: the handle is forgotten but the interval is not cleared
stopDrowsyAlertKeepsTimer(u) ==
  [u EXCEPT !.drowsyAlertIntervalRef = NoTimer]

stopDrowsyAlert(u) ==
  IF u.drowsyAlertIntervalRef # NoTimer
  THEN [u EXCEPT !.alertTimers = ClearTimer(@, u.drowsyAlertIntervalRef),
                 !.drowsyAlertIntervalRef = NoTimer]
  ELSE u

\* variant: the handle is forgotten but the timeout is not cleared
stopUnknownTimeoutKeepsTimer(u) ==
  [u EXCEPT !.unknownTimeoutRef = NoTimer]

stopUnknownTimeout(u) ==
  IF u.unknownTimeoutRef # NoTimer
  THEN [u EXCEPT !.timeouts = ClearTimer(@, u.unknownTimeoutRef),
                 !.unknownTimeoutRef = NoTimer]
  ELSE u

playSingleDrowsyBeep(u) == [u EXCEPT !.played = Append(@, "drowsy")]

startAlertLoop(u, kind) ==
  LET id == FreeId(u.alertTimers) IN
  [u EXCEPT !.played = Append(@, kind),
            !.alertTimers = @ \cup {[id |-> id, kind |-> kind,
                                     period |-> AlertRepeatMs,
                                     remaining |-> AlertRepeatMs]},
            !.drowsyAlertIntervalRef = id]

\* variant: the warning tone repeats like the other two
playAlertSoundWarningLoops(u, type) ==
  LET u0 == stopDrowsyAlert(stopUnknownTimeout(u)) IN
  CASE type = "drowsy" -> startAlertLoop(u0, "drowsy")
    [] type = "unknown" -> startAlertLoop(u0, "unknown")
    [] OTHER -> startAlertLoop(u0, "warning")

playAlertSound(u, type) ==
  LET u0 == stopDrowsyAlert(stopUnknownTimeout(u)) IN
  CASE type = "drowsy" -> startAlertLoop(u0, "drowsy")
    [] type = "unknown" -> startAlertLoop(u0, "unknown")
    [] OTHER -> [u0 EXCEPT !.played = Append(@, "warning")]

\* variant: the watchdog is armed with the beep period
armUnknownTimeoutBeepDelay(u) ==
  LET u0 == stopUnknownTimeout(u)
      id == FreeId(u0.timeouts) IN
  [u0 EXCEPT !.timeouts = @ \cup {[id |-> id, remaining |-> AlertRepeatMs]},
             !.unknownTimeoutRef = id]

armUnknownTimeout(u) ==
  LET u0 == stopUnknownTimeout(u)
      id == FreeId(u0.timeouts) IN
  [u0 EXCEPT !.timeouts = @ \cup {[id |-> id, remaining |-> WatchdogMs]},
             !.unknownTimeoutRef = id]

raiseAlert(u, msg) == [u EXCEPT !.alertMessage = msg, !.showAlert = TRUE]

\* ---------------------------------------------------- Tab1: streak tracker
\* Result of one update: the new counters, the new alert cells and the
\* argument playAlertSound was called with ("none" when it was not called).
\* variant: the safe branch forgets the watchdog
safeResultKeepsWatchdog(prev, u) ==
  [c |-> [prev EXCEPT !.drowsy = 0, !.distracted = 0, !.safetyViolation = 0,
                      !.unknown = 0, !.lastStatus = "safe"],
   u |-> stopDrowsyAlert(u),
   esc |-> "none"]

\* branch `status === "safe"`
safeResult(prev, u) ==
  [c |-> [prev EXCEPT !.drowsy = 0, !.distracted = 0, !.safetyViolation = 0,
                      !.unknown = 0, !.lastStatus = "safe"],
   u |-> stopUnknownTimeout(stopDrowsyAlert(u)),
   esc |-> "none"]

\* variant: the drowsy counter is not reset after the alert
drowsyRepeatNoReset(prev, u) ==
  IF prev.drowsy + 1 = DrowsyThreshold
  THEN [c |-> [prev EXCEPT !.drowsy = @ + 1, !.lastStatus = "drowsy"],
        u |-> raiseAlert(playAlertSound(u, "drowsy"), "drowsy"),
        esc |-> "drowsy"]
  ELSE [c |-> [prev EXCEPT !.drowsy = @ + 1, !.lastStatus = "drowsy"],
        u |-> u, esc |-> "none"]

\* branch `status === prev.lastStatus`, case "drowsy"
drowsyRepeat(prev, u) ==
  IF prev.drowsy + 1 = DrowsyThreshold
  THEN [c |-> [prev EXCEPT !.drowsy = 0, !.unknown = 0, !.lastStatus = "drowsy"],
        u |-> raiseAlert(playAlertSound(u, "drowsy"), "drowsy"),
        esc |-> "drowsy"]
  ELSE [c |-> [prev EXCEPT !.drowsy = @ + 1, !.lastStatus = "drowsy"],
        u |-> u, esc |-> "none"]

\* variant: the distracted counter is not reset after the alert
distractedRepeatNoReset(prev, u) ==
  IF prev.distracted + 1 = DistractedThreshold
  THEN [c |-> [prev EXCEPT !.distracted = @ + 1, !.unknown = 0,
                           !.lastStatus = "distracted"],
        u |-> raiseAlert(playAlertSound(u, "warning"), "distracted"),
        esc |-> "warning"]
  ELSE [c |-> [prev EXCEPT !.distracted = @ + 1, !.lastStatus = "distracted"],
        u |-> u, esc |-> "none"]

\* case "distracted"
distractedRepeat(prev, u) ==
  IF prev.distracted + 1 = DistractedThreshold
  THEN [c |-> [prev EXCEPT !.distracted = 0, !.unknown = 0, !.lastStatus = "distracted"],
        u |-> raiseAlert(playAlertSound(u, "warning"), "distracted"),
        esc |-> "warning"]
  ELSE [c |-> [prev EXCEPT !.distracted = @ + 1, !.lastStatus = "distracted"],
        u |-> u, esc |-> "none"]

\* variant: the alert is raised on every repeat from the threshold on, the
\* counter running on
safetyViolationRepeatRunsOn(prev, u) ==
  IF prev.safetyViolation + 1 >= SafetyViolationThreshold
  THEN [c |-> [prev EXCEPT !.safetyViolation = @ + 1, !.unknown = 0,
                           !.lastStatus = "safety-violation"],
        u |-> raiseAlert(playAlertSound(u, "warning"), "safety-violation"),
        esc |-> "warning"]
  ELSE [c |-> [prev EXCEPT !.safetyViolation = @ + 1, !.lastStatus = "safety-violation"],
        u |-> u, esc |-> "none"]

\* case "safety-violation"
safetyViolationRepeat(prev, u) ==
  IF prev.safetyViolation + 1 = SafetyViolationThreshold
  THEN [c |-> [prev EXCEPT !.safetyViolation = 0, !.unknown = 0,
                           !.lastStatus = "safety-violation"],
        u |-> raiseAlert(playAlertSound(u, "warning"), "safety-violation"),
        esc |-> "warning"]
  ELSE [c |-> [prev EXCEPT !.safetyViolation = @ + 1, !.lastStatus = "safety-violation"],
        u |-> u, esc |-> "none"]

\* variant: the watchdog is armed without the alert sound
unknownRepeatNoSound(prev, u) ==
  IF prev.unknown + 1 = UnknownThreshold
  THEN [c |-> [prev EXCEPT !.unknown = 0, !.lastStatus = "unknown"],
        u |-> armUnknownTimeout(raiseAlert(u, "unknown")),
        esc |-> "unknown"]
  ELSE [c |-> [prev EXCEPT !.unknown = @ + 1, !.lastStatus = "unknown"],
        u |-> u, esc |-> "none"]

\* case "unknown"
unknownRepeat(prev, u) ==
  IF prev.unknown + 1 = UnknownThreshold
  THEN [c |-> [prev EXCEPT !.unknown = 0, !.lastStatus = "unknown"],
        u |-> armUnknownTimeout(raiseAlert(playAlertSound(u, "unknown"), "unknown")),
        esc |-> "unknown"]
  ELSE [c |-> [prev EXCEPT !.unknown = @ + 1, !.lastStatus = "unknown"],
        u |-> u, esc |-> "none"]

\* variant: the other counters are kept when the status changes
statusChangedKeepsCounters(prev, u, status) ==
  [c |-> [drowsy |-> IF status = "drowsy" THEN 1 ELSE prev.drowsy,
          distracted |-> IF status = "distracted" THEN 1 ELSE prev.distracted,
          safetyViolation |-> IF status = "safety-violation" THEN 1
                              ELSE prev.safetyViolation,
          unknown |-> IF status = "unknown" THEN 1 ELSE prev.unknown,
          lastStatus |-> status],
   u |-> IF status # "unknown" /\ prev.lastStatus = "unknown"
         THEN stopUnknownTimeout(u) ELSE u,
   esc |-> "none"]

\* branch `else`: a status different from lastStatus
statusChanged(prev, u, status) ==
  [c |-> [drowsy |-> IF status = "drowsy" THEN 1 ELSE 0,
          distracted |-> IF status = "distracted" THEN 1 ELSE 0,
          safetyViolation |-> IF status = "safety-violation" THEN 1 ELSE 0,
          unknown |-> IF status = "unknown" THEN 1 ELSE 0,
          lastStatus |-> status],
   u |-> IF status # "unknown" /\ prev.lastStatus = "unknown"
         THEN stopUnknownTimeout(u) ELSE u,
   esc |-> "none"]

\* variant: every non-safe result counts as a repeat of its status
updateConsecutiveAlertsIgnoresLastStatus(prev, u, status) ==
  IF status = "safe" THEN safeResult(prev, u)
  ELSE
    CASE status = "drowsy" -> drowsyRepeat(prev, u)
      [] status = "distracted" -> distractedRepeat(prev, u)
      [] status = "safety-violation" -> safetyViolationRepeat(prev, u)
      [] status = "unknown" -> unknownRepeat(prev, u)
      [] OTHER -> [c |-> [prev EXCEPT !.lastStatus = status], u |-> u, esc |-> "none"]

updateConsecutiveAlerts(prev, u, status) ==
  IF status = "safe" THEN safeResult(prev, u)
  ELSE IF status = prev.lastStatus THEN
    CASE status = "drowsy" -> drowsyRepeat(prev, u)
      [] status = "distracted" -> distractedRepeat(prev, u)
      [] status = "safety-violation" -> safetyViolationRepeat(prev, u)
      [] status = "unknown" -> unknownRepeat(prev, u)
      [] OTHER -> [c |-> [prev EXCEPT !.lastStatus = status], u |-> u, esc |-> "none"]
  ELSE statusChanged(prev, u, status)

SetTab1(u) ==
  /\ drowsyAlertIntervalRef' = u.drowsyAlertIntervalRef
  /\ alertTimers' = u.alertTimers
  /\ unknownTimeoutRef' = u.unknownTimeoutRef
  /\ timeouts' = u.timeouts
  /\ showAlert' = u.showAlert
  /\ alertMessage' = u.alertMessage

\* ------------------------------------------------------------ CameraService
ServiceState ==
  [cameraStatus |-> cameraStatus,
   captureInterval |-> captureInterval,
   captureTimers |-> captureTimers]

\* updateStatus merges the updates and broadcasts statusChanged; the Tab1
\* listener handleStatusChange, while registered, stores the broadcast snapshot.
SetService(s) ==
  /\ cameraStatus' = s.cameraStatus
  /\ captureInterval' = s.captureInterval
  /\ captureTimers' = s.captureTimers
  /\ uiCameraStatus' = IF mounted THEN s.cameraStatus ELSE uiCameraStatus

\* variant: the timer is cleared but the handle is kept
stopContinuousCaptureKeepsHandle(s) ==
  LET s0 == IF s.captureInterval # NoTimer
            THEN [s EXCEPT !.captureTimers = ClearTimer(@, s.captureInterval)]
            ELSE s
  IN [s0 EXCEPT !.cameraStatus.isCapturing = FALSE]

stopContinuousCapture(s) ==
  LET s0 == IF s.captureInterval # NoTimer
            THEN [s EXCEPT !.captureTimers = ClearTimer(@, s.captureInterval),
                           !.captureInterval = NoTimer]
            ELSE s
  IN [s0 EXCEPT !.cameraStatus.isCapturing = FALSE]

\* startContinuousCapture from the line after the permission check on
startCaptureLoop(s, intervalMs) ==
  LET id == FreeId(s.captureTimers) IN
  [s EXCEPT !.cameraStatus.isCapturing = TRUE,
            !.captureTimers = @ \cup {[id |-> id, period |-> intervalMs,
                                       remaining |-> intervalMs]},
            !.captureInterval = id]

permissionGranted(s) ==
  [s EXCEPT !.cameraStatus.hasPermission = TRUE,
            !.cameraStatus.permissionStatus = "granted",
            !.cameraStatus.errorMessage = "none"]

PermissionErrors == {"NotAllowedError", "NotFoundError"}

\* variant: the failure leaves the permission flag as it was
permissionFailedKeepsFlag(s, err) ==
  [s EXCEPT !.cameraStatus.permissionStatus = "denied",
            !.cameraStatus.errorMessage = err]

permissionFailed(s, err) ==
  [s EXCEPT !.cameraStatus.hasPermission = FALSE,
            !.cameraStatus.permissionStatus = "denied",
            !.cameraStatus.errorMessage = err]

\* startContinuousCapture up to its first suspension point
StartContinuousCaptureCore(intervalMs) ==
  IF cameraStatus.isCapturing
  THEN UNCHANGED <<svars, uiCameraStatus>>
  ELSE IF ~cameraStatus.hasPermission
  THEN /\ BagCardinality(pendingStarts) < MaxPendingStarts
       /\ pendingStarts' = pendingStarts (+) SetToBag({intervalMs})
       /\ UNCHANGED <<cameraStatus, captureInterval, captureTimers, inflight,
                      uiCameraStatus>>
  ELSE /\ HasFreeId(captureTimers)
       /\ SetService(startCaptureLoop(ServiceState, intervalMs))
       /\ UNCHANGED <<pendingStarts, inflight>>

\* the permission request of a suspended start call is granted: the call
\* resumes and schedules its timer
StartResumesCore(intervalMs) ==
  /\ BagIn(intervalMs, pendingStarts)
  /\ HasFreeId(captureTimers)
  /\ pendingStarts' = pendingStarts (-) SetToBag({intervalMs})
  /\ SetService(startCaptureLoop(permissionGranted(ServiceState), intervalMs))
  /\ UNCHANGED inflight

\* variant: the failure is swallowed and the call goes on to schedule its timer
StartRejectsCoreSwallows(intervalMs, err) ==
  /\ BagIn(intervalMs, pendingStarts)
  /\ HasFreeId(captureTimers)
  /\ pendingStarts' = pendingStarts (-) SetToBag({intervalMs})
  /\ SetService(startCaptureLoop(permissionFailed(ServiceState, err), intervalMs))
  /\ UNCHANGED inflight

\* the permission request of a suspended start call fails: the call rejects
StartRejectsCore(intervalMs, err) ==
  /\ BagIn(intervalMs, pendingStarts)
  /\ pendingStarts' = pendingStarts (-) SetToBag({intervalMs})
  /\ SetService(permissionFailed(ServiceState, err))
  /\ UNCHANGED inflight

StopContinuousCaptureCore ==
  /\ SetService(stopContinuousCapture(ServiceState))
  /\ UNCHANGED <<pendingStarts, inflight>>

InFlight == Len(inflight)
Chains == 1..Len(inflight)
Remove(seq, i) == SubSeq(seq, 1, i - 1) \o SubSeq(seq, i + 1, Len(seq))

\* variant: a tick is skipped while a chain is in flight
CaptureTickCoreSerialized(t) ==
  /\ t \in captureTimers
  /\ InFlight = 0
  /\ inflight' = Append(inflight, "capture")
  /\ captureTimers' = (captureTimers \ {t}) \cup {[t EXCEPT !.remaining = t.period]}
  /\ UNCHANGED <<cameraStatus, captureInterval, pendingStarts, uiCameraStatus>>

\* the repeating capture timer fires: a new captureAndAnalyze chain starts
CaptureTickCore(t) ==
  /\ t \in captureTimers
  /\ InFlight < MaxInFlight
  /\ inflight' = Append(inflight, "capture")
  /\ captureTimers' = (captureTimers \ {t}) \cup {[t EXCEPT !.remaining = t.period]}
  /\ UNCHANGED <<cameraStatus, captureInterval, pendingStarts, uiCameraStatus>>

\* variant: the status update of the capture writes isCapturing back
CaptureDoneCoreResurrects(i) ==
  /\ i \in Chains /\ inflight[i] = "capture"
  /\ inflight' = [inflight EXCEPT ![i] = "detect"]
  /\ SetService([ServiceState EXCEPT !.cameraStatus.errorMessage = "none",
                                     !.cameraStatus.isCapturing = TRUE])
  /\ UNCHANGED pendingStarts

\* takePhoto of a chain succeeds: status updated, detection request sent
CaptureDoneCore(i) ==
  /\ i \in Chains /\ inflight[i] = "capture"
  /\ inflight' = [inflight EXCEPT ![i] = "detect"]
  /\ SetService([ServiceState EXCEPT !.cameraStatus.errorMessage = "none"])
  /\ UNCHANGED pendingStarts

\* variant: a failed capture ends the capture loop
captureFailsServiceStopsTimer(i) ==
  /\ i \in Chains /\ inflight[i] = "capture"
  /\ inflight' = Remove(inflight, i)
  /\ SetService([stopContinuousCapture(ServiceState) EXCEPT
                   !.cameraStatus.errorMessage = "Failed to capture photo"])
  /\ UNCHANGED pendingStarts

\* takePhoto of a chain fails: the status records the failure and
\* captureAndAnalyze emits analysisError
captureFailsService(i) ==
  /\ i \in Chains /\ inflight[i] = "capture"
  /\ inflight' = Remove(inflight, i)
  /\ SetService([ServiceState EXCEPT
                   !.cameraStatus.errorMessage = "Failed to capture photo"])
  /\ UNCHANGED pendingStarts

\* the catch of captureAndAnalyze: whatever failed in the chain, it emits
\* analysisError and returns normally
captureAndAnalyzeCatch(failed) == [event |-> "analysisError", rethrown |-> FALSE]

\* the catch of the interval callback around captureAndAnalyze: it emits
\* captureError for an error that reaches it
tickCatch(outcome) == IF outcome.rethrown THEN "captureError" ELSE outcome.event

\* the event observers get when the capture of a tick fails
CaptureFailureEvent == tickCatch(captureAndAnalyzeCatch("capture"))

\* a DetectionResult as the service sees it; confidence in percent
Confidences == {0, 39, 40, 59, 60, 79, 80, 100}
DetectionResults ==
  [isDrowsy : DrowsinessStatus, confidence : Confidences, status : {"success", "error"}]

\* JavaScript truthiness of a string
Truthy(str) == str # ""

NoLevel == -1
getAlertLevel(result) ==
  IF result.status # "success" \/ ~Truthy(result.isDrowsy) THEN 0
  ELSE IF result.confidence >= 80 THEN 3
  ELSE IF result.confidence >= 60 THEN 2
  ELSE IF result.confidence >= 40 THEN 1
  ELSE 0

\* variant: the chain stays in flight after it has emitted its result
detectionResultServiceKeepsChain(i) ==
  /\ i \in Chains /\ inflight[i] = "detect"
  /\ UNCHANGED <<cameraStatus, captureInterval, captureTimers, pendingStarts,
                 uiCameraStatus, inflight>>

\* detectDrowsiness of a chain returns: captureAndAnalyze emits detectionResult
detectionResultService(i) ==
  /\ i \in Chains /\ inflight[i] = "detect"
  /\ inflight' = Remove(inflight, i)
  /\ UNCHANGED <<cameraStatus, captureInterval, captureTimers, pendingStarts,
                 uiCameraStatus>>

\* no listener of the page runs
PageIdle ==
  UNCHANGED <<captureIntervalMs, streamRef, consecutiveAlerts, drowsyAlertIntervalRef,
              alertTimers, unknownTimeoutRef, timeouts, showAlert, alertMessage>>

\* -------------------------------------------------------- Tab1: listeners
\* listener of error / captureError / analysisError
handleError ==
  /\ SetTab1(raiseAlert(Tab1State, "error"))
  /\ UNCHANGED <<captureIntervalMs, streamRef, consecutiveAlerts>>

\* listener of detectionResult: feeds the streak tracker
Delivery(status) == updateConsecutiveAlerts(consecutiveAlerts, Tab1State, status)

handleDetectionResult(status) ==
  /\ HasFreeId(alertTimers) /\ HasFreeId(timeouts)
  /\ consecutiveAlerts' = Delivery(status).c
  /\ SetTab1(Delivery(status).u)
  /\ UNCHANGED <<captureIntervalMs, streamRef>>

\* events the page listens to with handleError
ErrorEvents == {"error", "captureError", "analysisError"}

\* emit: the listeners the page registered for the event run; an event
\* without a listener changes nothing
emit(event, status) ==
  IF ~mounted THEN PageIdle
  ELSE CASE event = "detectionResult" -> handleDetectionResult(status)
         [] event \in ErrorEvents -> handleError
         [] OTHER -> PageIdle

CaptureFailsCore(i) == captureFailsService(i) /\ emit(CaptureFailureEvent, NoStatus)

DetectionResultCore(i, status) ==
  detectionResultService(i) /\ emit("detectionResult", status)

\* ------------------------------------------------------------- ApiService
\* how the POST to the detect endpoint ends: a response with a status, or a
\* rejection of the request
TransportFailures == {"timeout", "network", "http-error"}
ApiResponses ==
  [kind : {"ok"}, status : DrowsinessStatus]
    \cup [kind : TransportFailures, status : {NoStatus}]

\* the statuses the mock result is drawn from, indexed by the random draw
MockStatuses == <<"safe", "drowsy", "distracted", "safety-violation">>
MockDraws == 0..(Len(MockStatuses) - 1)
\* the draws that matter for a response: the mock is only built on a failure
DrawsFor(resp) == IF resp.kind = "ok" THEN {0} ELSE MockDraws

\* variant: the mock result reports unknown
getMockDetectionResultUnknown(rnd) ==
  [isDrowsy |-> "unknown", id |-> "mock"]

getMockDetectionResult(rnd) ==
  [isDrowsy |-> MockStatuses[rnd + 1], id |-> "mock"]

\* variant: the rejection of the request reaches the caller
detectDrowsinessPropagates(resp, rnd) ==
  IF resp.kind = "ok"
  THEN [threw |-> FALSE, result |-> [isDrowsy |-> resp.status, id |-> "backend"]]
  ELSE [threw |-> TRUE, result |-> [isDrowsy |-> NoStatus, id |-> "none"]]

\* try { post } catch { mock }: what the caller's await gives
detectDrowsiness(resp, rnd) ==
  IF resp.kind = "ok"
  THEN [threw |-> FALSE, result |-> [isDrowsy |-> resp.status, id |-> "backend"]]
  ELSE [threw |-> FALSE, result |-> getMockDetectionResult(rnd)]

\* the detect stage of a chain ends: captureAndAnalyze emits detectionResult,
\* or analysisError when the await threw
captureAndAnalyzeDetect(i, resp, rnd) ==
  /\ detectionResultService(i)
  /\ IF detectDrowsiness(resp, rnd).threw
     THEN emit("analysisError", NoStatus)
     ELSE emit("detectionResult", detectDrowsiness(resp, rnd).result.isDrowsy)

\* variant: the one-shot analysis announces its result as detectionResult
analyzeSinglePhotoCoreEmitsResult(perm, photo, resp, rnd) ==
  LET s0 == IF cameraStatus.hasPermission THEN ServiceState
            ELSE IF perm = "granted" THEN permissionGranted(ServiceState)
            ELSE permissionFailed(ServiceState, perm)
      r == detectDrowsiness(resp, rnd)
  IN /\ UNCHANGED <<pendingStarts, inflight>>
     /\ IF ~s0.cameraStatus.hasPermission
        THEN SetService(s0) /\ PageIdle
        ELSE IF ~photo
        THEN /\ SetService([s0 EXCEPT
                              !.cameraStatus.errorMessage = "Failed to capture photo"])
             /\ PageIdle
        ELSE /\ SetService([s0 EXCEPT !.cameraStatus.errorMessage = "none"])
             /\ IF r.threw THEN PageIdle
                ELSE emit("detectionResult", r.result.isDrowsy)

\* analyzeSinglePhoto: takePhoto (asking for the permission when it is
\* missing), detectDrowsiness, then the singleDetection event; a failure is
\* rethrown to the caller
analyzeSinglePhotoCore(perm, photo, resp, rnd) ==
  LET s0 == IF cameraStatus.hasPermission THEN ServiceState
            ELSE IF perm = "granted" THEN permissionGranted(ServiceState)
            ELSE permissionFailed(ServiceState, perm)
      r == detectDrowsiness(resp, rnd)
  IN /\ UNCHANGED <<pendingStarts, inflight>>
     /\ IF ~s0.cameraStatus.hasPermission
        THEN SetService(s0) /\ PageIdle
        ELSE IF ~photo
        THEN /\ SetService([s0 EXCEPT
                              !.cameraStatus.errorMessage = "Failed to capture photo"])
             /\ PageIdle
        ELSE /\ SetService([s0 EXCEPT !.cameraStatus.errorMessage = "none"])
             /\ IF r.threw THEN PageIdle
                ELSE emit("singleDetection", r.result.isDrowsy)

\* ------------------------------------------------------------- Tab1: page
\* the page's showLivePreview: set by initializeLivePreview only through the
\* video element, which is rendered only while showLivePreview is set
showLivePreview == FALSE

\* getUserMedia for the preview (it resolves, the permission being granted):
\* the new stream is stored in streamRef, over whatever the ref held
initializeLivePreview ==
  IF uiCameraStatus.hasPermission
  THEN streamRef' = TRUE
  ELSE UNCHANGED streamRef

\* the stream in streamRef is stopped and the ref cleared
stopLivePreview == streamRef' = FALSE

\* cleanup of the page's effects on unmount: the alert interval and the
\* watchdog are cleared and the listeners removed
unmountCore ==
  /\ mounted
  /\ mounted' = FALSE
  /\ stopLivePreview
  /\ SetTab1(stopUnknownTimeout(stopDrowsyAlert(Tab1State)))
  /\ UNCHANGED <<svars, uiCameraStatus, captureIntervalMs, consecutiveAlerts>>

\* the preview call at its end runs with the hasPermission of the render the
\* handler was created in, which is false here, so it returns at once
initializeCameraCore(ok, err) ==
  /\ mounted
  /\ ~uiCameraStatus.hasPermission
  /\ IF ok
     THEN /\ SetService(permissionGranted(ServiceState))
          /\ SetTab1(Tab1State)
     ELSE /\ SetService(permissionFailed(ServiceState, err))
          /\ SetTab1(raiseAlert(Tab1State, "error"))
  /\ UNCHANGED <<pendingStarts, inflight, captureIntervalMs, streamRef, consecutiveAlerts>>

startCaptureCore ==
  /\ mounted
  /\ uiCameraStatus.hasPermission
  /\ ~uiCameraStatus.isCapturing
  /\ IF ~showLivePreview THEN initializeLivePreview ELSE UNCHANGED streamRef
  /\ StartContinuousCaptureCore(captureIntervalMs)
  /\ UNCHANGED <<captureIntervalMs, consecutiveAlerts, drowsyAlertIntervalRef,
                 alertTimers, unknownTimeoutRef, timeouts, showAlert, alertMessage>>

\* variant: only the service is stopped
stopCaptureCoreServiceOnly ==
  /\ mounted
  /\ uiCameraStatus.isCapturing
  /\ StopContinuousCaptureCore
  /\ PageIdle

stopCaptureCore ==
  /\ mounted
  /\ uiCameraStatus.isCapturing
  /\ StopContinuousCaptureCore
  /\ SetTab1(stopUnknownTimeout(stopDrowsyAlert(Tab1State)))
  /\ UNCHANGED <<captureIntervalMs, streamRef, consecutiveAlerts>>

\* variant: the popup is hidden and nothing else
dismissAlertCoreHidesOnly ==
  /\ mounted
  /\ showAlert
  /\ SetTab1([Tab1State EXCEPT !.showAlert = FALSE])
  /\ UNCHANGED <<svars, uiCameraStatus, captureIntervalMs, streamRef, consecutiveAlerts>>

\* IonAlert onDidDismiss
dismissAlertCore ==
  /\ mounted
  /\ showAlert
  /\ SetTab1([stopUnknownTimeout(stopDrowsyAlert(Tab1State)) EXCEPT !.showAlert = FALSE])
  /\ UNCHANGED <<svars, uiCameraStatus, captureIntervalMs, streamRef, consecutiveAlerts>>

\* IonRange onIonChange
setCaptureIntervalCore(v) ==
  /\ mounted
  /\ v # captureIntervalMs
  /\ captureIntervalMs' = v
  /\ SetTab1(Tab1State)
  /\ UNCHANGED <<svars, uiCameraStatus, streamRef, consecutiveAlerts>>

\* the repeating alert timer fires: one more beep of its pattern
alertBeepCore(t) ==
  /\ t \in alertTimers
  /\ alertTimers' = (alertTimers \ {t}) \cup {[t EXCEPT !.remaining = t.period]}
  /\ UNCHANGED <<svars, uiCameraStatus, captureIntervalMs, streamRef, consecutiveAlerts,
                 drowsyAlertIntervalRef, unknownTimeoutRef, timeouts, showAlert,
                 alertMessage>>

\* variant: the watchdog callback leaves the alert loop running
unknownTimeoutCoreKeepsLoop(t) ==
  /\ t \in timeouts
  /\ LET fired == [Tab1State EXCEPT !.timeouts = @ \ {t}]
     IN SetTab1(stopUnknownTimeout(raiseAlert(fired, "auto-stop")))
  /\ StopContinuousCaptureCore
  /\ UNCHANGED <<captureIntervalMs, streamRef, consecutiveAlerts>>

\* the auto-stop watchdog fires (callback of the 10 s timeout)
unknownTimeoutCore(t) ==
  /\ t \in timeouts
  /\ LET fired == [Tab1State EXCEPT !.timeouts = @ \ {t}]
     IN SetTab1(stopUnknownTimeout(stopDrowsyAlert(raiseAlert(fired, "auto-stop"))))
  /\ StopContinuousCaptureCore
  /\ UNCHANGED <<captureIntervalMs, streamRef, consecutiveAlerts>>

\* ------------------------------------- ApiService: connection listeners
\* callbacks clients register: two plain ones, and one that calls its own
\* disposer when it is notified
Callbacks == {"cbA", "cbB", "cbOnce"}
DisposesItself(cb) == cb = "cbOnce"

\* Array.prototype.indexOf, 1-based here, 0 for -1
indexOf(seq, x) ==
  IF \E i \in 1..Len(seq) : seq[i] = x
  THEN CHOOSE i \in 1..Len(seq) : seq[i] = x /\ \A j \in 1..(i - 1) : seq[j] # x
  ELSE 0

\* the function onConnectionStatusChange returns
unsubscribe(listeners, callback) ==
  IF indexOf(listeners, callback) > 0
  THEN Remove(listeners, indexOf(listeners, callback))
  ELSE listeners

\* connectionListeners.forEach from index k on: it visits the indices that
\* exist in the array as it is when it gets to them; the callbacks it has
\* called are collected in called
RECURSIVE forEachListener(_, _, _)
forEachListener(listeners, k, called) ==
  IF k > Len(listeners)
  THEN [listeners |-> listeners, called |-> called]
  ELSE forEachListener(IF DisposesItself(listeners[k])
                       THEN unsubscribe(listeners, listeners[k])
                       ELSE listeners,
                       k + 1, Append(called, listeners[k]))

updateConnectionStatus(value) ==
  IF isConnected # value
  THEN forEachListener(connectionListeners, 1, <<>>)
  ELSE [listeners |-> connectionListeners, called |-> <<>>]

\* ---------------------------------------------- CameraService: takePhoto
TimeStepMs == 1000
VideoLoadTimeoutMs == 10000
NoCall ==
  [platform |-> "none", stage |-> "idle", timeout |-> -1, elapsed |-> 0,
   error |-> "none", stream |-> FALSE]
Platforms == {"web", "mobile"}
PendingStages == {"getUserMedia", "loadeddata", "getPhoto"}

\* takePhoto picks the path by platform
takePhoto(platform) ==
  [platform |-> platform,
   stage |-> IF platform = "web" THEN "getUserMedia" ELSE "getPhoto",
   timeout |-> -1,
   elapsed |-> 0,
   error |-> "none",
   stream |-> FALSE]

\* takeWebPhoto once getUserMedia has resolved: the stream is open, the
\* handlers are set and the fallback timeout is armed
awaitLoadedData(call) ==
  [call EXCEPT !.stage = "loadeddata", !.timeout = VideoLoadTimeoutMs,
               !.stream = TRUE]

\* stream.getTracks().forEach((track) => track.stop())
stopTracks(call) == [call EXCEPT !.stream = FALSE]

\* resolve / reject of the promise of the call: a promise settles once, a
\* later resolve or reject is ignored; the timeout is left armed
resolve(call) ==
  IF call.stage \in PendingStages THEN [call EXCEPT !.stage = "resolved"] ELSE call
reject(call, error) ==
  IF call.stage \in PendingStages
  THEN [call EXCEPT !.stage = "rejected", !.error = error]
  ELSE call

\* ------------------------------------------------------------ observations
Op(name) ==
  [name |-> name,
   wd |-> timeouts # {},
   loop |-> alertTimers # {},
   cap |-> cameraStatus.isCapturing,
   api |-> "none",
   older |-> 0,
   event |-> "none",
   status |-> NoStatus,
   level |-> NoLevel]

Observe(name) == lastOp' = Op(name) /\ UNCHANGED <<mounted, run, last, unknownRun, xvars>>

\* a step of chain i as a client of the service sees it: older counts the
\* chains started before it that are still in flight
OpChain(name, i) == [Op(name) EXCEPT !.older = i - 1]
ObserveChain(name, i) ==
  lastOp' = OpChain(name, i) /\ UNCHANGED <<mounted, run, last, unknownRun, xvars>>

\* what the latest delivery did: the status, the counters and the alert
\* cells before it, the argument of playAlertSound, the alert cells (with the
\* tones played) after it
LogEntry(status) ==
  [status |-> status,
   before |-> consecutiveAlerts,
   cells |-> Tab1State,
   esc |-> Delivery(status).esc,
   after |-> Delivery(status).u]

\* the run of equal results the latest delivery belongs to: its status, its
\* length (counted up to MaxRun) and the positions at which playAlertSound
\* was called
NextRun(status) ==
  LET fresh == status # consecutiveAlerts.lastStatus
      n == IF fresh THEN 1 ELSE run.len + 1
      old == IF fresh THEN <<>> ELSE run.esc
  IN IF ~fresh /\ run.len >= MaxRun
     THEN [run EXCEPT !.len = MaxRun + 1]
     ELSE [status |-> status, len |-> n,
           esc |-> IF Delivery(status).esc # "none" THEN Append(old, n) ELSE old]

\* --------------------------------------------------------------- the page
Init ==
  /\ cameraStatus = [isCapturing |-> FALSE, hasPermission |-> FALSE,
                     permissionStatus |-> "unknown", errorMessage |-> "none"]
  /\ captureInterval = NoTimer
  /\ captureTimers = {}
  /\ pendingStarts = EmptyBag
  /\ inflight = <<>>
  /\ uiCameraStatus = cameraStatus
  /\ captureIntervalMs = DefaultIntervalMs
  /\ streamRef = FALSE
  /\ consecutiveAlerts = [drowsy |-> 0, distracted |-> 0, safetyViolation |-> 0,
                          unknown |-> 0, lastStatus |-> NoStatus]
  /\ drowsyAlertIntervalRef = NoTimer
  /\ alertTimers = {}
  /\ unknownTimeoutRef = NoTimer
  /\ timeouts = {}
  /\ showAlert = FALSE
  /\ alertMessage = "none"
  /\ mounted = TRUE
  /\ run = [status |-> NoStatus, len |-> 0, esc |-> <<>>]
  /\ last = [status |-> NoStatus, before |-> consecutiveAlerts, cells |-> Tab1State,
             esc |-> "none", after |-> Tab1State]
  /\ lastOp = [name |-> "init", wd |-> FALSE, loop |-> FALSE, cap |-> FALSE,
               api |-> "none", older |-> 0, event |-> "none", status |-> NoStatus,
               level |-> NoLevel]
  /\ unknownRun = FALSE
  /\ isConnected = FALSE
  /\ connectionListeners = <<>>
  /\ subscriptions = [live |-> [cb \in Callbacks |-> 0], spent |-> {},
                      changed |-> FALSE, liveBefore |-> [cb \in Callbacks |-> 0],
                      notified |-> <<>>]
  /\ takePhotoCall = NoCall

InitializeCamera(ok, err) == initializeCameraCore(ok, err) /\ Observe("initializeCamera")
StartCapture == startCaptureCore /\ Observe("startCapture")
StopCapture == stopCaptureCore /\ Observe("stopCapture")
DismissAlert == dismissAlertCore /\ Observe("dismissAlert")
UnknownTimeout(t) == unknownTimeoutCore(t) /\ Observe("unknownTimeout")

CaptureTick(t) ==
  /\ CaptureTickCore(t)
  /\ PageIdle
  /\ Observe("captureTick")

CaptureDone(i) ==
  /\ CaptureDoneCore(i)
  /\ PageIdle
  /\ Observe("captureDone")

ObserveEvent(op, event) ==
  /\ lastOp' = [op EXCEPT !.event = event]
  /\ UNCHANGED <<mounted, run, last, unknownRun, xvars>>

CaptureFails(i) ==
  CaptureFailsCore(i) /\ ObserveEvent(Op("captureFails"), CaptureFailureEvent)

DetectionResult(i, status) ==
  /\ DetectionResultCore(i, status)
  /\ run' = NextRun(status)
  /\ last' = LogEntry(status)
  /\ lastOp' = Op("detectionResult")
  /\ UNCHANGED <<mounted, unknownRun, xvars>>

Next ==
  \/ \E ok \in BOOLEAN, err \in PermissionErrors : InitializeCamera(ok, err)
  \/ StartCapture
  \/ StopCapture
  \/ DismissAlert
  \/ \E t \in captureTimers : CaptureTick(t)
  \/ \E i \in Chains : CaptureDone(i)
  \/ \E i \in Chains : CaptureFails(i)
  \/ \E i \in Chains, status \in DrowsinessStatus : DetectionResult(i, status)
  \/ \E t \in timeouts : UnknownTimeout(t)

Spec == Init /\ [][Next]_vars

\* ------------------------------------------- clients of the service API
\* The service alone: any client of the exported singleton may call start and
\* stop directly, in any state, also while an earlier start is suspended in
\* its permission request.  uiCameraStatus is the snapshot the statusChanged
\* observer holds.
ClientStart(intervalMs) ==
  /\ StartContinuousCaptureCore(intervalMs)
  /\ PageIdle
  /\ Observe("startContinuousCapture")

ClientStop ==
  /\ StopContinuousCaptureCore
  /\ PageIdle
  /\ Observe("stopContinuousCapture")

StartResumes(intervalMs) ==
  /\ StartResumesCore(intervalMs)
  /\ PageIdle
  /\ Observe("startResumes")

StartRejects(intervalMs, err) ==
  /\ StartRejectsCore(intervalMs, err)
  /\ PageIdle
  /\ Observe("startRejects")

ServiceTick(t) == CaptureTickCore(t) /\ PageIdle /\ Observe("captureTick")
ServiceCaptureDone(i) == CaptureDoneCore(i) /\ PageIdle /\ ObserveChain("captureDone", i)
ServiceCaptureFails(i) ==
  captureFailsService(i) /\ PageIdle
    /\ ObserveEvent(OpChain("captureFails", i), CaptureFailureEvent)
\* the detectionResult event carries the result and its alert level
ServiceDetectionResult(i, result) ==
  /\ detectionResultService(i)
  /\ PageIdle
  /\ lastOp' = [OpChain("detectionResult", i)
                EXCEPT !.event = "detectionResult",
                       !.status = result.isDrowsy,
                       !.level = getAlertLevel(result)]
  /\ UNCHANGED <<mounted, run, last, unknownRun, xvars>>

NextService ==
  \/ ClientStart(DefaultIntervalMs)
  \/ ClientStop
  \/ StartResumes(DefaultIntervalMs)
  \/ \E err \in PermissionErrors : StartRejects(DefaultIntervalMs, err)
  \/ \E t \in captureTimers : ServiceTick(t)
  \/ \E i \in Chains : ServiceCaptureDone(i)
  \/ \E i \in Chains : ServiceCaptureFails(i)
  \/ \E i \in Chains, result \in DetectionResults : ServiceDetectionResult(i, result)

SpecService == Init /\ [][NextService]_vars

\* ------------------------------------------------- session of the page
\* how a permission request made by takePhoto ends; none is made when the
\* permission is already held
PermissionOutcomes ==
  IF cameraStatus.hasPermission THEN {"granted"}
  ELSE {"granted"} \cup PermissionErrors

\* The page from mount to unmount together with the detection client: the
\* detect stage of a chain ends with a response or a transport failure, a
\* client may ask for a one-shot analysis at any time, and the page may be
\* unmounted at any time, after which the service goes on alone.  lastOp
\* records how the request ended; the status handed to the page is the
\* lastStatus its tracker stores.
Detect(i, resp, rnd) ==
  /\ captureAndAnalyzeDetect(i, resp, rnd)
  /\ lastOp' = [Op(IF detectDrowsiness(resp, rnd).threw
                   THEN "analysisError" ELSE "detectionResult")
                EXCEPT !.api = resp.kind]
  /\ UNCHANGED <<mounted, run, last, unknownRun, xvars>>

AnalyzeSinglePhoto(perm, photo, resp, rnd) ==
  /\ analyzeSinglePhotoCore(perm, photo, resp, rnd)
  /\ lastOp' = [Op("analyzeSinglePhoto")
                EXCEPT !.api = IF cameraStatus'.hasPermission /\ photo
                               THEN resp.kind ELSE "none"]
  /\ UNCHANGED <<mounted, run, last, unknownRun, xvars>>

Unmount ==
  /\ unmountCore
  /\ lastOp' = Op("unmount")
  /\ UNCHANGED <<run, last, unknownRun, xvars>>

NextSession ==
  \/ \E ok \in BOOLEAN, err \in PermissionErrors : InitializeCamera(ok, err)
  \/ StartCapture
  \/ StopCapture
  \/ DismissAlert
  \/ \E t \in captureTimers : CaptureTick(t)
  \/ \E i \in Chains : CaptureDone(i)
  \/ \E i \in Chains : CaptureFails(i)
  \/ \E i \in Chains, resp \in ApiResponses :
        \E rnd \in DrawsFor(resp) : Detect(i, resp, rnd)
  \/ \E t \in timeouts : UnknownTimeout(t)
  \/ \E perm \in PermissionOutcomes, photo \in BOOLEAN, resp \in ApiResponses :
        \E rnd \in DrawsFor(resp) : AnalyzeSinglePhoto(perm, photo, resp, rnd)
  \/ Unmount

SpecSession == Init /\ [][NextSession]_vars

\* ------------------------------------------------------------- timed page
\* The same handlers with the host clock: a timer fires when its remaining
\* time is 0, Advance lets IntervalStepMs pass when no timer is due.  A chain
\* completes within the step in which its tick fired, and a timeout due at an
\* instant runs before the results delivered at that instant.
Due(t) == t.remaining = 0
AllTimers == captureTimers \cup alertTimers \cup timeouts
Elapse(S) == {[x EXCEPT !.remaining = @ - IntervalStepMs] : x \in S}

Timed(flag) == unknownRun' = flag /\ UNCHANGED <<mounted, run, last, lastOp,
                                        xvars>>

Advance ==
  /\ AllTimers # {}
  /\ \A x \in AllTimers : ~Due(x)
  /\ InFlight = 0
  /\ captureTimers' = Elapse(captureTimers)
  /\ alertTimers' = Elapse(alertTimers)
  /\ timeouts' = Elapse(timeouts)
  /\ UNCHANGED <<cameraStatus, captureInterval, pendingStarts, inflight,
                 uiCameraStatus, captureIntervalMs, streamRef, consecutiveAlerts,
                 drowsyAlertIntervalRef, unknownTimeoutRef, showAlert, alertMessage>>
  /\ Timed(unknownRun)

TInitializeCamera(ok, err) == initializeCameraCore(ok, err) /\ Timed(unknownRun)
TStartCapture == startCaptureCore /\ Timed(unknownRun)
TStopCapture == stopCaptureCore /\ Timed(FALSE)
TDismissAlert == dismissAlertCore /\ Timed(FALSE)
TSetCaptureInterval(v) ==
  /\ ~uiCameraStatus.isCapturing
  /\ setCaptureIntervalCore(v)
  /\ Timed(unknownRun)
TAlertBeep(t) == Due(t) /\ alertBeepCore(t) /\ Timed(unknownRun)
TUnknownTimeout(t) == Due(t) /\ unknownTimeoutCore(t) /\ Timed(FALSE)

TCaptureTick(t) ==
  /\ Due(t)
  /\ CaptureTickCore(t)
  /\ PageIdle
  /\ Timed(unknownRun)

TCaptureDone(i) ==
  /\ CaptureDoneCore(i)
  /\ PageIdle
  /\ Timed(unknownRun)

TCaptureFails(i) == CaptureFailsCore(i) /\ Timed(unknownRun)

TDetectionResult(i, status) ==
  /\ \A x \in timeouts : ~Due(x)
  /\ DetectionResultCore(i, status)
  /\ Timed(IF status # "unknown" THEN FALSE
           ELSE unknownRun \/ Delivery(status).esc = "unknown")

NextTimed ==
  \/ Advance
  \/ \E ok \in BOOLEAN, err \in PermissionErrors : TInitializeCamera(ok, err)
  \/ TStartCapture
  \/ TStopCapture
  \/ TDismissAlert
  \/ \E v \in IntervalRange : TSetCaptureInterval(v)
  \/ \E t \in alertTimers : TAlertBeep(t)
  \/ \E t \in timeouts : TUnknownTimeout(t)
  \/ \E t \in captureTimers : TCaptureTick(t)
  \/ \E i \in Chains : TCaptureDone(i)
  \/ \E i \in Chains : TCaptureFails(i)
  \/ \E i \in Chains, status \in DrowsinessStatus : TDetectionResult(i, status)

\* The host runs a due timer, lets time pass and completes a chain; what the
\* user does and which status the backend answers is not constrained.
SpecTimed ==
  /\ Init
  /\ [][NextTimed]_vars
  /\ WF_vars(Advance)
  /\ WF_vars(\E t \in alertTimers : TAlertBeep(t))
  /\ WF_vars(\E t \in timeouts : TUnknownTimeout(t))
  /\ WF_vars(\E t \in captureTimers : TCaptureTick(t))
  /\ WF_vars(\E i \in Chains : TCaptureDone(i) \/ TCaptureFails(i))
  /\ WF_vars(\E i \in Chains, status \in DrowsinessStatus : TDetectionResult(i, status))

\* ------------------------------------------- clients of the ApiService
Range(seq) == {seq[i] : i \in 1..Len(seq)}
ApiIdle ==
  UNCHANGED <<pvars, mounted, run, last, lastOp, unknownRun, takePhotoCall>>

\* registrations whose disposer has not been called
RECURSIVE SumOver(_, _)
SumOver(f, S) ==
  IF S = {} THEN 0
  ELSE LET x == CHOOSE y \in S : TRUE IN f[x] + SumOver(f, S \ {x})
Undisposed == SumOver(subscriptions.live, Callbacks)

\* the observation of the latest status change is dropped
NoChange ==
  [subscriptions EXCEPT !.changed = FALSE,
                        !.liveBefore = [cb \in Callbacks |-> 0],
                        !.notified = <<>>]

\* onConnectionStatusChange(cb)
Subscribe(cb) ==
  /\ Len(connectionListeners) < MaxListeners
  /\ Undisposed < MaxListeners
  /\ connectionListeners' = Append(connectionListeners, cb)
  /\ subscriptions' = [NoChange EXCEPT !.live[cb] = @ + 1]
  /\ UNCHANGED isConnected
  /\ ApiIdle

\* a client calls a disposer it got for cb: one not called before (fresh)
\* or one called before
Dispose(cb, fresh) ==
  /\ IF fresh THEN subscriptions.live[cb] > 0 ELSE cb \in subscriptions.spent
  /\ connectionListeners' = unsubscribe(connectionListeners, cb)
  /\ subscriptions' =
       [NoChange EXCEPT !.live[cb] = IF fresh THEN @ - 1 ELSE @,
                        !.spent = @ \cup {cb}]
  /\ UNCHANGED isConnected
  /\ ApiIdle

\* checkHealth settles: reachable or not
CheckHealth(ok) ==
  /\ isConnected' = ok
  /\ connectionListeners' = updateConnectionStatus(ok).listeners
  /\ subscriptions' =
       [live |-> [cb \in Callbacks |->
                    IF DisposesItself(cb) /\ cb \in Range(updateConnectionStatus(ok).called)
                    THEN 0 ELSE subscriptions.live[cb]],
        spent |-> subscriptions.spent \cup
                    {cb \in Range(updateConnectionStatus(ok).called) : DisposesItself(cb)},
        changed |-> isConnected # ok,
        liveBefore |-> subscriptions.live,
        notified |-> updateConnectionStatus(ok).called]
  /\ ApiIdle

NextApi ==
  \/ \E cb \in Callbacks : Subscribe(cb)
  \/ \E cb \in Callbacks, fresh \in BOOLEAN : Dispose(cb, fresh)
  \/ \E ok \in BOOLEAN : CheckHealth(ok)

SpecApi == Init /\ [][NextApi]_vars

\* ---------------------------------------------------- one call of takePhoto
PhotoIdle ==
  UNCHANGED <<pvars, mounted, run, last, lastOp, unknownRun, isConnected,
              connectionListeners, subscriptions>>

\* a call is followed until its promise has settled and its timeout is gone
TakePhoto(platform) ==
  /\ takePhotoCall.stage \notin PendingStages
  /\ takePhotoCall.timeout = -1
  /\ takePhotoCall' = takePhoto(platform)
  /\ PhotoIdle

GetUserMediaSettles(ok) ==
  /\ takePhotoCall.stage = "getUserMedia"
  /\ takePhotoCall' = IF ok THEN awaitLoadedData(takePhotoCall)
                            ELSE reject(takePhotoCall, "getUserMedia")
  /\ PhotoIdle

\* video.onloadeddata (the frame is drawn and encoded, or that throws), or
\* video.onerror
VideoSettles(ok) ==
  /\ takePhotoCall.stage = "loadeddata"
  /\ takePhotoCall.timeout > 0
  /\ takePhotoCall' = IF ok THEN resolve(stopTracks(takePhotoCall))
                            ELSE reject(stopTracks(takePhotoCall), "Video error")
  /\ PhotoIdle

\* variant: the fallback timeout rejects and leaves the tracks running
VideoLoadTimeoutKeepsStream ==
  /\ takePhotoCall.timeout = 0
  /\ takePhotoCall' = [reject(takePhotoCall, "Video load timeout")
                         EXCEPT !.timeout = -1]
  /\ PhotoIdle

\* the fallback timeout fires
VideoLoadTimeout ==
  /\ takePhotoCall.timeout = 0
  /\ takePhotoCall' = [reject(stopTracks(takePhotoCall), "Video load timeout")
                         EXCEPT !.timeout = -1]
  /\ PhotoIdle

\* Camera.getPhoto settles
GetPhotoSettles(ok) ==
  /\ takePhotoCall.stage = "getPhoto"
  /\ takePhotoCall' = IF ok THEN resolve(takePhotoCall)
                            ELSE reject(takePhotoCall, "getPhoto")
  /\ PhotoIdle

\* time passes while the call is pending or its timeout is armed; the time
\* the call has taken is counted while it is pending, up to MaxElapsedMs
PhotoTime ==
  /\ takePhotoCall.stage \in PendingStages \/ takePhotoCall.timeout > 0
  /\ takePhotoCall.timeout # 0
  /\ takePhotoCall' =
       [takePhotoCall EXCEPT
          !.elapsed = IF takePhotoCall.stage \in PendingStages /\ @ < MaxElapsedMs
                      THEN @ + TimeStepMs ELSE @,
          !.timeout = IF @ > 0 THEN @ - TimeStepMs ELSE @]
  /\ PhotoIdle

NextPhoto ==
  \/ \E platform \in Platforms : TakePhoto(platform)
  \/ \E ok \in BOOLEAN : GetUserMediaSettles(ok)
  \/ \E ok \in BOOLEAN : VideoSettles(ok)
  \/ VideoLoadTimeout
  \/ \E ok \in BOOLEAN : GetPhotoSettles(ok)
  \/ PhotoTime

SpecPhoto == Init /\ [][NextPhoto]_vars

\* the host lets time pass and fires a timeout that is due; whether the
\* camera ever answers is up to the environment
SpecPhotoLive == SpecPhoto /\ WF_vars(PhotoTime) /\ WF_vars(VideoLoadTimeout)

\* ================================================================== claims
Delivered == last.status # NoStatus
ZeroCounters(c) ==
  c.drowsy = 0 /\ c.distracted = 0 /\ c.safetyViolation = 0 /\ c.unknown = 0
OneLoop(u, kind) ==
  /\ Cardinality(u.alertTimers) = 1
  /\ \A x \in u.alertTimers :
       x.kind = kind /\ x.period = AlertRepeatMs /\ x.id = u.drowsyAlertIntervalRef
OneWatchdog(u) ==
  /\ Cardinality(u.timeouts) = 1
  /\ \A x \in u.timeouts : x.remaining = WatchdogMs /\ x.id = u.unknownTimeoutRef

\* C1: a run of three drowsy results (the first one differing from the
\* lastStatus before it) calls playAlertSound("drowsy") exactly once, on the
\* third result and not on the first two; that call leaves exactly one
\* repeating drowsy alert timer, and the drowsy and unknown counters are 0.
C1_DrowsyEscalatesOnThird ==
  (run.status = "drowsy" /\ run.len <= DrowsyThreshold) =>
     IF run.len < DrowsyThreshold
     THEN run.esc = <<>> /\ last.esc = "none" /\ last.after.played = <<>>
     ELSE /\ run.esc = <<DrowsyThreshold>>
          /\ last.esc = "drowsy"
          /\ OneLoop(last.after, "drowsy")
          /\ consecutiveAlerts.drowsy = 0
          /\ consecutiveAlerts.unknown = 0
C1_Witness ==
  run.status = "drowsy" /\ run.len = DrowsyThreshold /\ last.status = "drowsy"

\* C2: in a run of unknown results no escalation happens on the first four;
\* the fifth starts the repeating unknown alert timer, arms one watchdog
\* timeout of 10000 ms and resets the unknown counter to 0.
C2_UnknownEscalatesOnFifth ==
  (run.status = "unknown" /\ run.len <= UnknownThreshold) =>
     IF run.len < UnknownThreshold
     THEN /\ run.esc = <<>> /\ last.esc = "none" /\ last.after.played = <<>>
          /\ last.after.timeouts = last.cells.timeouts
          /\ last.after.alertTimers = last.cells.alertTimers
     ELSE /\ run.esc = <<UnknownThreshold>>
          /\ last.esc = "unknown"
          /\ OneLoop(last.after, "unknown")
          /\ OneWatchdog(last.after)
          /\ consecutiveAlerts.unknown = 0
C2_Witness ==
  run.status = "unknown" /\ run.len = UnknownThreshold /\ last.status = "unknown"

\* C3: a safe result, whatever the state before it, leaves all four counters
\* at 0, no alert timer scheduled and no watchdog armed.
C3_SafeResetsEverything ==
  (Delivered /\ last.status = "safe") =>
     /\ ZeroCounters(consecutiveAlerts)
     /\ last.after.alertTimers = {}
     /\ last.after.drowsyAlertIntervalRef = NoTimer
     /\ last.after.timeouts = {}
     /\ last.after.unknownTimeoutRef = NoTimer
C3_Witness ==
  /\ last.status = "safe"
  /\ last.before.unknown > 0
  /\ last.cells.alertTimers # {}
  /\ last.cells.timeouts # {}

CounterOf(c, status) ==
  CASE status = "drowsy" -> c.drowsy
    [] status = "distracted" -> c.distracted
    [] status = "safety-violation" -> c.safetyViolation
    [] status = "unknown" -> c.unknown
    [] OTHER -> 0

\* C4: a non-safe result whose status differs from lastStatus sets the counter
\* of its status to 1 and the others to 0, fires no escalation, and cancels
\* the watchdog when lastStatus was unknown; a result equal to lastStatus
\* changes no counter but the one of its status.
C4_ChangeResetsRepeatCounts ==
  Delivered =>
    IF last.status # last.before.lastStatus
    THEN last.status # "safe" =>
           /\ \A st \in DrowsinessStatus :
                CounterOf(consecutiveAlerts, st) = IF st = last.status THEN 1 ELSE 0
           /\ last.esc = "none" /\ last.after.played = <<>>
           /\ last.after.showAlert = last.cells.showAlert
           /\ last.after.alertTimers = last.cells.alertTimers
           /\ last.before.lastStatus = "unknown" =>
                last.after.timeouts = {} /\ last.after.unknownTimeoutRef = NoTimer
    ELSE \A st \in DrowsinessStatus \ {last.status} :
           CounterOf(consecutiveAlerts, st) = CounterOf(last.before, st)
C4_Witness ==
  /\ last.status = "drowsy"
  /\ last.before.lastStatus = "unknown"
  /\ last.before.unknown > 0
  /\ last.cells.timeouts # {}
C4_WitnessRepeat ==
  last.status = "unknown" /\ last.before.lastStatus = "unknown" /\ last.before.unknown = 2

\* C5: the third distracted (or safety-violation) result of a run plays one
\* warning tone, schedules no repeating alert timer and leaves the counter of
\* that status and the unknown counter at 0.
C5_WarningToneOnThird ==
  (run.status \in {"distracted", "safety-violation"} /\ run.len = DistractedThreshold) =>
     /\ last.esc = "warning"
     /\ last.after.played = <<"warning">>
     /\ last.after.alertTimers \subseteq last.cells.alertTimers
     /\ CounterOf(consecutiveAlerts, run.status) = 0
     /\ consecutiveAlerts.unknown = 0
C5_Witness ==
  /\ run.status = "safety-violation" /\ run.len = SafetyViolationThreshold
  /\ last.status = "safety-violation"
C5_WitnessDistracted ==
  run.status = "distracted" /\ run.len = DistractedThreshold /\ last.status = "distracted"

\* C6: right after the watchdog callback ran, capture is stopped (no capture
\* timer, isCapturing false), no alert timer is scheduled, the watchdog handle
\* is cleared and the auto-stop popup is shown.
C6_WatchdogStopsEverything ==
  lastOp.name = "unknownTimeout" =>
     /\ ~cameraStatus.isCapturing
     /\ ~uiCameraStatus.isCapturing
     /\ captureInterval = NoTimer
     /\ captureTimers = {}
     /\ alertTimers = {}
     /\ drowsyAlertIntervalRef = NoTimer
     /\ unknownTimeoutRef = NoTimer
     /\ timeouts = {}
     /\ showAlert
     /\ alertMessage = "auto-stop"
C6_Witness == lastOp.name = "unknownTimeout" /\ lastOp.cap /\ lastOp.loop

\* C7: right after a safe result or a stop of capture that found the watchdog
\* armed, no watchdog timeout is scheduled any more (a cancelled timeout
\* cannot fire) and the handle is cleared.
C7_CancelledWatchdogIsGone ==
  (lastOp.wd /\ (lastOp.name = "stopCapture"
                 \/ (lastOp.name = "detectionResult" /\ last.status = "safe"))) =>
     /\ timeouts = {}
     /\ unknownTimeoutRef = NoTimer
     /\ ~ENABLED (\E t \in timeouts : unknownTimeoutCore(t))
C7_Witness ==
  lastOp.wd /\ lastOp.name = "detectionResult" /\ last.status = "safe"
C7_WitnessStop == lastOp.wd /\ lastOp.name = "stopCapture"

\* C8: prolonged unknown classification auto-stops monitoring: an unknown run
\* that raised its alert and is not disturbed (every further result unknown,
\* no stop, no dismissal) comes to an end, which only the watchdog can bring
\* about, whatever the capture interval of the session.
C8_ProlongedUnknownAutoStops == unknownRun ~> ~unknownRun

\* C9: a start call that finds the controller Capturing changes nothing, and
\* exactly one repeating capture timer is scheduled after it.
C9_StartWhileCapturingKeepsOneTimer ==
  [][(lastOp'.name = "startContinuousCapture" /\ lastOp'.cap) =>
       (UNCHANGED pvars /\ Cardinality(captureTimers') = 1)]_vars

C10_WitnessCapturing ==
  lastOp.name = "stopContinuousCapture" /\ lastOp.cap /\ captureTimers = {}

\* C11: right after the page's stop handler ran, no repeating alert timer is
\* scheduled and no watchdog timeout is armed, whatever the counters, the
\* alert loop and the watchdog were before.
C11_StopSilencesAlerts ==
  lastOp.name = "stopCapture" =>
     /\ alertTimers = {}
     /\ drowsyAlertIntervalRef = NoTimer
     /\ timeouts = {}
     /\ unknownTimeoutRef = NoTimer
     /\ ~cameraStatus.isCapturing
C11_Witness == lastOp.name = "stopCapture" /\ lastOp.loop /\ lastOp.wd

\* C12: a failed capture of a scheduled tick is reported to the page through
\* an error event (the error popup is shown) and leaves the repeating capture
\* timer, its schedule, its handle and isCapturing as they were.
C12_FailedTickKeepsTimer ==
  [][lastOp'.name = "captureFails" =>
       /\ showAlert' /\ alertMessage' = "error"
       /\ captureTimers' = captureTimers
       /\ captureInterval' = captureInterval
       /\ cameraStatus'.isCapturing = cameraStatus.isCapturing
       /\ uiCameraStatus'.isCapturing = cameraStatus.isCapturing]_vars
C12_Witness ==
  lastOp.name = "captureFails" /\ lastOp.cap /\ cameraStatus.isCapturing
    /\ captureTimers # {}

\* C13: a chain that completes a stage (capture done, capture failed, result
\* delivered) while the controller is Idle leaves it Idle: isCapturing stays
\* false and no capture timer exists afterwards.
C13_StragglerDoesNotResurrect ==
  [][(lastOp'.name \in {"captureDone", "captureFails", "detectionResult"}
        /\ ~cameraStatus.isCapturing) =>
       /\ ~cameraStatus'.isCapturing
       /\ ~uiCameraStatus'.isCapturing
       /\ captureTimers' = {}
       /\ captureInterval' = NoTimer]_vars
C13_Witness ==
  /\ lastOp.name = "detectionResult" /\ ~lastOp.cap
  /\ last.status # NoStatus /\ ~cameraStatus.isCapturing
C13_WitnessCaptureDone == lastOp.name = "captureDone" /\ ~lastOp.cap

\* C14: in every reachable state at most one repeating alert timer is
\* scheduled, and it is the one the handle names; a result that starts a
\* continuous alert leaves exactly one, of its own kind, also when another
\* one was running before.
C14_AtMostOneAlertLoop ==
  /\ Cardinality(alertTimers) <= 1
  /\ \A x \in alertTimers : x.id = drowsyAlertIntervalRef
  /\ last.esc \in {"drowsy", "unknown"} => OneLoop(last.after, last.esc)
C14_Witness ==
  /\ last.esc = "drowsy"
  /\ \E x \in last.cells.alertTimers : x.kind = "unknown"

\* C15: a result that plays the single warning tone leaves the repeating
\* alert timer, its handle, the watchdog and its handle exactly as they were.
C15_WarningToneKeepsContinuousState ==
  last.esc = "warning" =>
     /\ last.after.alertTimers = last.cells.alertTimers
     /\ last.after.drowsyAlertIntervalRef = last.cells.drowsyAlertIntervalRef
     /\ last.after.timeouts = last.cells.timeouts
     /\ last.after.unknownTimeoutRef = last.cells.unknownTimeoutRef

\* C16: dismissing the popup leaves no repeating alert timer and no watchdog
\* timeout, with both handles cleared; when neither was active it changes
\* nothing but the popup flag.
C16_DismissCancelsAlerts ==
  [][lastOp'.name = "dismissAlert" =>
       /\ alertTimers' = {} /\ drowsyAlertIntervalRef' = NoTimer
       /\ timeouts' = {} /\ unknownTimeoutRef' = NoTimer
       /\ ~showAlert'
       /\ (alertTimers = {} /\ timeouts = {}) =>
            UNCHANGED <<svars, uiCameraStatus, captureIntervalMs, streamRef, consecutiveAlerts,
                        drowsyAlertIntervalRef, alertTimers, unknownTimeoutRef,
                        timeouts, alertMessage>>]_vars
C16_Witness == lastOp.name = "dismissAlert" /\ lastOp.loop /\ lastOp.wd
C16_WitnessNothingActive ==
  lastOp.name = "dismissAlert" /\ ~lastOp.loop /\ ~lastOp.wd

\* C17: once the page is unmounted no timer of the subsystem is scheduled: no
\* repeating alert timer, no watchdog timeout and no repeating capture timer,
\* in every state from then on.
C17_NoTimerSurvivesUnmount ==
  ~mounted =>
     /\ alertTimers = {} /\ drowsyAlertIntervalRef = NoTimer
     /\ timeouts = {} /\ unknownTimeoutRef = NoTimer
     /\ captureTimers = {}

\* C18: when the request of a chain's detect stage ends in a transport
\* failure (timeout, network error, non-success status) the stage still ends
\* with a detectionResult, never with an error event, and the page's tracker
\* receives a status of the closed set.
C18_TransportFailureYieldsResult ==
  lastOp.api \in TransportFailures =>
     /\ lastOp.name \in {"detectionResult", "analyzeSinglePhoto"}
     /\ (mounted /\ lastOp.name = "detectionResult") =>
           consecutiveAlerts.lastStatus \in DrowsinessStatus
C18_Witness ==
  /\ lastOp.api = "timeout" /\ lastOp.name = "detectionResult" /\ lastOp.cap
  /\ mounted /\ cameraStatus.isCapturing

\* C19 (as stated): the result handed to the page after a transport failure
\* has status unknown.
C19_FailureYieldsUnknown ==
  (lastOp.api \in TransportFailures /\ lastOp.name = "detectionResult" /\ mounted) =>
     consecutiveAlerts.lastStatus = "unknown"

\* C19 (amended): the result handed to the page after a transport failure is
\* the mock result, whose status is one of safe, drowsy, distracted,
\* safety-violation and never unknown.
C19_FailureYieldsMockStatus ==
  (lastOp.api \in TransportFailures /\ lastOp.name = "detectionResult" /\ mounted) =>
     consecutiveAlerts.lastStatus \in {"safe", "drowsy", "distracted", "safety-violation"}
C19_Witness ==
  /\ lastOp.api = "network" /\ lastOp.name = "detectionResult" /\ mounted
  /\ consecutiveAlerts.lastStatus = "drowsy"

\* C20: a one-shot analysis, whether it succeeds or fails and whether the
\* controller is Idle or Capturing, leaves isCapturing, the capture timer and
\* its handle, the four counters and lastStatus as they were.
C20_SinglePhotoLeavesCaptureAndStreaks ==
  [][lastOp'.name = "analyzeSinglePhoto" =>
       /\ cameraStatus'.isCapturing = cameraStatus.isCapturing
       /\ captureTimers' = captureTimers
       /\ captureInterval' = captureInterval
       /\ consecutiveAlerts' = consecutiveAlerts]_vars
C20_Witness ==
  /\ lastOp.name = "analyzeSinglePhoto" /\ lastOp.cap /\ lastOp.api = "ok"
  /\ mounted /\ consecutiveAlerts.lastStatus = "drowsy" /\ consecutiveAlerts.drowsy = 2
C20_WitnessIdle ==
  lastOp.name = "analyzeSinglePhoto" /\ ~lastOp.cap /\ lastOp.api = "ok"

\* C21: right after a start of monitoring all four streak counters are 0 and
\* lastStatus is empty.
C21_SessionStartResetsStreaks ==
  lastOp.name = "startCapture" =>
     ZeroCounters(consecutiveAlerts) /\ consecutiveAlerts.lastStatus = NoStatus

\* C29: a scheduled tick can fire while chains are in flight (up to the
\* modelled number of chains); a tick adds one chain, and a chain that
\* delivers its result or fails leaves the others in flight untouched,
\* whichever position it has in the order of starting.
C29_TicksAreNotSerialized ==
  /\ []((captureTimers # {} /\ InFlight < MaxInFlight) =>
          ENABLED (\E t \in captureTimers : CaptureTickCore(t)))
  /\ [][/\ lastOp'.name = "captureTick" => inflight' = Append(inflight, "capture")
        /\ lastOp'.name \in {"detectionResult", "captureFails"} =>
             /\ lastOp'.older + 1 \in Chains
             /\ inflight' = Remove(inflight, lastOp'.older + 1)]_vars
C29_Witness ==
  /\ lastOp.name = "detectionResult" /\ lastOp.older = 1
  /\ lastOp.status # NoStatus /\ Len(inflight) = 1

\* C30: a result with a status other than unknown, delivered while the
\* unknown alert loop is running, leaves no watchdog armed and no unknown
\* alert loop scheduled.
C30_OtherStatusEndsUnknownAlert ==
  (Delivered /\ last.status # "unknown"
     /\ \E x \in last.cells.alertTimers : x.kind = "unknown") =>
     /\ last.after.timeouts = {}
     /\ last.after.unknownTimeoutRef = NoTimer
     /\ \A x \in last.after.alertTimers : x.kind # "unknown"

\* C23: a start call whose permission request fails rejects without
\* scheduling anything: the capture timers, the handle and isCapturing are as
\* before (so an Idle controller stays Idle) and the failure is recorded.
C23_FailedStartStaysIdle ==
  [][lastOp'.name = "startRejects" =>
       /\ captureTimers' = captureTimers
       /\ captureInterval' = captureInterval
       /\ cameraStatus'.isCapturing = cameraStatus.isCapturing
       /\ uiCameraStatus'.isCapturing = cameraStatus.isCapturing
       /\ cameraStatus'.errorMessage \in PermissionErrors]_vars
C23_Witness ==
  /\ lastOp.name = "startRejects" /\ ~lastOp.cap
  /\ ~cameraStatus.isCapturing /\ captureTimers = {}

\* C24: hasPermission is true exactly when permissionStatus is granted, in
\* every reachable state; right after a granted request both say granted,
\* right after a failed one hasPermission is false, permissionStatus is
\* denied and an error message is recorded.
C24_PermissionFieldsConsistent ==
  /\ cameraStatus.hasPermission <=> cameraStatus.permissionStatus = "granted"
  /\ lastOp.name = "startResumes" =>
       cameraStatus.hasPermission /\ cameraStatus.permissionStatus = "granted"
  /\ lastOp.name = "startRejects" =>
       /\ ~cameraStatus.hasPermission
       /\ cameraStatus.permissionStatus = "denied"
       /\ cameraStatus.errorMessage \in PermissionErrors
C24_Witness ==
  lastOp.name = "startRejects" /\ lastOp.cap /\ cameraStatus.permissionStatus = "denied"

\* C26: the alert level of a detectionResult event is in 0..3, and it is 0
\* when the status of the result is safe.
C26_AlertLevelZeroForSafe ==
  lastOp.level # NoLevel =>
     /\ lastOp.level \in 0..3
     /\ lastOp.status = "safe" => lastOp.level = 0

\* C27: the event observers get for a failed capture of a tick is
\* captureError.
C27_CaptureFailureIsCaptureError ==
  lastOp.name = "captureFails" => lastOp.event = "captureError"

\* C22: at most one video stream is open at a time: when the web capture of a
\* tick grabs its frame from the stream it has opened for it, the page holds
\* no open preview stream.
C22_OneStreamAtATime ==
  [][lastOp'.name = "captureDone" => ~streamRef]_vars

\* C25: a frame capture that is still pending has not taken longer than the
\* acquisition timeout: by then it has returned a photo or failed.
C25_CaptureSettlesWithinTimeout ==
  takePhotoCall.stage \in PendingStages => takePhotoCall.elapsed <= VideoLoadTimeoutMs

\* C28: a connection-status change notifies exactly the callbacks that have a
\* registration whose disposer has not been called: a callback whose
\* disposers have all been called is not invoked, every other registered
\* callback is.
C28_DisposedCallbackIsSilent ==
  subscriptions.changed =>
    \A cb \in Callbacks :
       (subscriptions.liveBefore[cb] = 0) <=> (cb \notin Range(subscriptions.notified))

\* C31: whatever the interleaving of start and stop calls, at most one
\* repeating capture timer exists, and none is left scheduled while
\* isCapturing is false.
C31_NoOrphanCaptureTimer ==
  /\ Cardinality(captureTimers) <= 1
  /\ ~cameraStatus.isCapturing => captureTimers = {}

\* C32: a stop called while the only start call is suspended in its
\* permission request wins: when that start call then completes, the
\* controller is Idle (isCapturing false, no capture timer).
C32_StopDuringPendingStartWins ==
  [][(/\ lastOp.name = "stopContinuousCapture"
      /\ BagCardinality(pendingStarts) = 1
      /\ lastOp'.name \in {"startResumes", "startRejects"}) =>
       (~cameraStatus'.isCapturing /\ captureTimers' = {})]_vars

\* C33: while the controller is Idle no continuous alert loop is running and
\* no watchdog is armed, also after the result of a chain that was in flight
\* at stop time has been delivered.
C33_IdleHasNoAlertActivity ==
  ~cameraStatus.isCapturing => (alertTimers = {} /\ timeouts = {})

\* the threshold of a status, and the argument playAlertSound gets for it
ThresholdOf(status) ==
  CASE status = "drowsy" -> DrowsyThreshold
    [] status = "distracted" -> DistractedThreshold
    [] status = "safety-violation" -> SafetyViolationThreshold
    [] status = "unknown" -> UnknownThreshold
SoundOf(status) ==
  CASE status = "drowsy" -> "drowsy"
    [] status = "unknown" -> "unknown"
    [] OTHER -> "warning"
Escalating == DrowsinessStatus \ {"safe"}

\* C34: an escalation happens on a delivered result only if that result and
\* the T-1 results delivered right before it have the same status (T the
\* threshold of that status), and it is the escalation of that status.
C34_NoFalseEscalation ==
  (Delivered /\ last.esc # "none") =>
     /\ last.status \in Escalating
     /\ last.esc = SoundOf(last.status)
     /\ run.status = last.status
     /\ run.len >= ThresholdOf(last.status)
C34_Witness ==
  /\ Delivered /\ last.esc = "unknown"
  /\ run.status = "unknown" /\ run.len = UnknownThreshold

\* C35: in a run of N equal results of an escalating status with threshold
\* T the escalation has happened exactly on the results T, 2T, ... up to N.
C35_EscalatesEveryThreshold ==
  (run.status \in Escalating /\ run.len <= MaxRun) =>
     /\ Len(run.esc) = run.len \div ThresholdOf(run.status)
     /\ \A k \in 1..Len(run.esc) : run.esc[k] = k * ThresholdOf(run.status)
C35_Witness ==
  /\ run.status = "distracted" /\ run.len = 2 * DistractedThreshold
  /\ run.esc = <<DistractedThreshold, 2 * DistractedThreshold>>

\* C36: whenever the auto-stop watchdog is armed, a repeating alert loop is
\* running and it is the unknown alert loop.
C36_WatchdogOnlyWithUnknownLoop ==
  timeouts # {} =>
     (alertTimers # {} /\ \A x \in alertTimers : x.kind = "unknown")

C36_Witness ==
  /\ Delivered /\ last.esc = "unknown" /\ lastOp.name = "detectionResult"
  /\ timeouts # {} /\ \E x \in alertTimers : x.kind = "unknown"

\* C37: at most one of the four counters is non-zero, a non-zero counter is
\* the one of lastStatus, the drowsy, distracted and safety-violation
\* counters stay below their threshold and the unknown counter below its.
C37_CountersShape ==
  /\ consecutiveAlerts.drowsy \in 0..(DrowsyThreshold - 1)
  /\ consecutiveAlerts.distracted \in 0..(DistractedThreshold - 1)
  /\ consecutiveAlerts.safetyViolation \in 0..(SafetyViolationThreshold - 1)
  /\ consecutiveAlerts.unknown \in 0..(UnknownThreshold - 1)
  /\ \A st \in Escalating :
       CounterOf(consecutiveAlerts, st) # 0 => consecutiveAlerts.lastStatus = st
C37_Witness ==
  /\ Delivered /\ last.status = "unknown"
  /\ consecutiveAlerts.unknown = UnknownThreshold - 1
  /\ consecutiveAlerts.lastStatus = "unknown"

\* C38: a chain emits an outcome event exactly when it completes, and it is
\* gone from the chains in flight then: the event is detectionResult when
\* capture and detection have succeeded and an error event when the capture
\* failed; a step that completes no chain emits no outcome event.
C38_OneOutcomePerTick ==
  [][/\ (lastOp'.event # "none") <=> (Len(inflight') = Len(inflight) - 1)
     /\ lastOp'.event # "none" =>
          /\ lastOp'.older + 1 \in Chains
          /\ inflight' = Remove(inflight, lastOp'.older + 1)
          /\ IF inflight[lastOp'.older + 1] = "detect"
             THEN lastOp'.event = "detectionResult"
             ELSE lastOp'.event \in ErrorEvents]_vars
C38_Witness ==
  /\ lastOp.name = "captureFails" /\ lastOp.event \in ErrorEvents
  /\ lastOp.older = 0 /\ inflight = <<"detect">>

\* C39: a stream takeWebPhoto has opened is released in the end (on the
\* frame, on a video error, or by the timeout), it is open only while the
\* timeout is armed, and once the promise has settled its outcome stays as
\* it is until the next call.
C39_StreamReleasedAndSettledOnce ==
  /\ takePhotoCall.stream ~> ~takePhotoCall.stream
  /\ [](takePhotoCall.stream =>
          (takePhotoCall.stage = "loadeddata" /\ takePhotoCall.timeout >= 0))
  /\ [][(takePhotoCall.stage \in {"resolved", "rejected"}
           /\ takePhotoCall'.stage \notin PendingStages) =>
          /\ takePhotoCall'.stage = takePhotoCall.stage
          /\ takePhotoCall'.error = takePhotoCall.error
          /\ ~takePhotoCall'.stream]_vars
C39_Witness ==
  /\ takePhotoCall.platform = "web" /\ takePhotoCall.stage = "resolved"
  /\ takePhotoCall.timeout = -1 /\ ~takePhotoCall.stream

====
